---- MODULE Spec2Model ----
(***************************************************************************)
(* Model of src/parser/markdown.rs: the nom-combinator Markdown parser.    *)
(*                                                                         *)
(* A &str is a sequence of one-character strings.  A parser is a record    *)
(* naming its combinator and its arguments, written as in the source;      *)
(* run(p, s) applies parser p to the input s and gives the IResult as a    *)
(* record [ok, rest, val, kind]: Ok((rest, val)) or                        *)
(* Err(Error((rest, kind))).                                               *)
(***************************************************************************)
EXTENDS Naturals, Sequences, FiniteSets

VARIABLES input, fn, pc, i, acc, ret

vars == <<input, fn, pc, i, acc, ret>>

(***************************************************************************)
(* Results and string helpers                                              *)
(***************************************************************************)
Ok(rest, val) == [ok |-> TRUE, rest |-> rest, val |-> val, kind |-> "Ok"]

Err(rest, kind) == [ok |-> FALSE, rest |-> rest, val |-> <<>>, kind |-> kind]

None == <<>>

Some(x) == <<x>>

Range(s) == {s[k] : k \in 1..Len(s)}

Drop(s, n) == SubSeq(s, n + 1, Len(s))

Take(s, n) == SubSeq(s, 1, n)

StartsWith(s, t) == Len(s) >= Len(t) /\ Take(s, Len(t)) = t

\* number of leading characters of s that are in cs (inside = TRUE) or are
\* not in cs (inside = FALSE)
RECURSIVE RunLen(_, _, _)
RunLen(s, cs, inside) ==
    IF s = <<>> \/ ((Head(s) \in cs) # inside) THEN 0
    ELSE 1 + RunLen(Tail(s), cs, inside)

\* the backtick character (U+0060), which cannot be written inside a TLA+
\* string literal
BT == "BT"

\* the characters of " \t\r\n"
WHITESPACE == <<" ", "\t", "\r", "\n">>

\* the characters is_digit accepts
DIGITS == {"0", "1", "2", "3", "4", "5", "6", "7", "8", "9"}

\* str::trim: leading and trailing whitespace removed
RECURSIVE trim_end(_)
trim_end(s) ==
    IF s # <<>> /\ s[Len(s)] \in Range(WHITESPACE) THEN trim_end(Take(s, Len(s) - 1))
    ELSE s

trim(s) == trim_end(Drop(s, RunLen(s, Range(WHITESPACE), TRUE)))

\* [String]::join(""): the concatenation of a vector of strings
RECURSIVE join(_)
join(v) == IF v = <<>> THEN <<>> ELSE Head(v) \o join(Tail(v))

(***************************************************************************)
(* nom combinators, as parser descriptions                                 *)
(***************************************************************************)
tag(t) == [op |-> "tag", t |-> t]

is_not(arr) == [op |-> "is_not", arr |-> arr]

take_while1(cs) == [op |-> "take_while1", cs |-> cs]

take(n) == [op |-> "take", n |-> n]

delimited(a, b, c) == [op |-> "delimited", a |-> a, b |-> b, c |-> c]

pair(a, b) == [op |-> "pair", a |-> a, b |-> b]

tuple(a, b) == [op |-> "pair", a |-> a, b |-> b]

preceded(a, b) == [op |-> "preceded", a |-> a, b |-> b]

terminated(a, b) == [op |-> "terminated", a |-> a, b |-> b]

opt(a) == [op |-> "opt", a |-> a]

not(a) == [op |-> "not", a |-> a]

alt(ps) == [op |-> "alt", ps |-> ps]

many0(a) == [op |-> "many0", a |-> a]

many1(a) == [op |-> "many1", a |-> a]

\* map(a, f): f names the closure applied to a's value
map(a, f) == [op |-> "map", a |-> a, f |-> f]

\* the closures the source passes to map
closure(f, v) ==
    CASE f = "join" -> join(v)
      [] f = "len" -> Len(v)
      [] f = "Plain" -> <<"Plain", v>>
      [] f = "Bold" -> <<"Bold", v>>
      [] f = "Italic" -> <<"Italic", v>>
      [] f = "InlineCode" -> <<"InlineCode", v[1], v[2]>>
      [] f = "Image" -> <<"Image", v[1], v[2]>>
      [] f = "Link" -> <<"Link", v[1], v[2]>>
      [] f = "Heading" -> <<"Heading", v[1], v[2]>>
      [] f = "OrderedList" -> <<"OrderedList", v>>
      [] f = "UnorderedList" -> <<"UnorderedList", v>>
      [] f = "Quote" -> <<"Quote", v>>
      [] f = "CodeBlock" ->
            LET language == trim(v[1])
            IN  <<"CodeBlock", v[2], IF language # <<>> THEN Some(language) ELSE None>>
      [] f = "Text" -> <<"Text", v>>

(***************************************************************************)
(* nom's semantics (complete parsers, error type (I, ErrorKind))           *)
(***************************************************************************)
RECURSIVE run(_, _)
RECURSIVE run_alt(_, _, _)
RECURSIVE run_many(_, _, _, _)

\* alt: the first alternative that succeeds, else the last one's error
run_alt(ps, k, s) ==
    LET r == run(ps[k], s)
    IN  IF r.ok \/ k = Len(ps) THEN r ELSE run_alt(ps, k + 1, s)

\* the loop of many0 and many1: stop at the first error, keeping what
\* was pushed; a success that consumed nothing is an error
run_many(a, s, out, kind) ==
    LET r == run(a, s)
    IN  IF ~r.ok THEN Ok(s, out)
        ELSE IF r.rest = s THEN Err(s, kind)
        ELSE run_many(a, r.rest, Append(out, r.val), kind)

run(p, s) ==
    CASE p.op = "tag" ->
            IF StartsWith(s, p.t) THEN Ok(Drop(s, Len(p.t)), p.t) ELSE Err(s, "Tag")
      [] p.op = "is_not" ->
            LET n == RunLen(s, Range(p.arr), FALSE)
            IN  IF n = 0 THEN Err(s, "IsNot") ELSE Ok(Drop(s, n), Take(s, n))
      [] p.op = "take_while1" ->
            LET n == RunLen(s, p.cs, TRUE)
            IN  IF n = 0 THEN Err(s, "TakeWhile1") ELSE Ok(Drop(s, n), Take(s, n))
      [] p.op = "take" ->
            IF Len(s) >= p.n THEN Ok(Drop(s, p.n), Take(s, p.n)) ELSE Err(s, "Eof")
      [] p.op = "delimited" ->
            LET ra == run(p.a, s)
            IN  IF ~ra.ok THEN ra
                ELSE LET rb == run(p.b, ra.rest)
                     IN  IF ~rb.ok THEN rb
                         ELSE LET rc == run(p.c, rb.rest)
                              IN  IF ~rc.ok THEN rc ELSE Ok(rc.rest, rb.val)
      [] p.op = "pair" ->
            LET ra == run(p.a, s)
            IN  IF ~ra.ok THEN ra
                ELSE LET rb == run(p.b, ra.rest)
                     IN  IF ~rb.ok THEN rb ELSE Ok(rb.rest, <<ra.val, rb.val>>)
      [] p.op = "preceded" ->
            LET ra == run(p.a, s)
            IN  IF ~ra.ok THEN ra ELSE run(p.b, ra.rest)
      [] p.op = "terminated" ->
            LET ra == run(p.a, s)
            IN  IF ~ra.ok THEN ra
                ELSE LET rb == run(p.b, ra.rest)
                     IN  IF ~rb.ok THEN rb ELSE Ok(rb.rest, ra.val)
      [] p.op = "opt" ->
            LET ra == run(p.a, s)
            IN  IF ra.ok THEN Ok(ra.rest, Some(ra.val)) ELSE Ok(s, None)
      [] p.op = "not" ->
            IF run(p.a, s).ok THEN Err(s, "Not") ELSE Ok(s, <<>>)
      [] p.op = "alt" -> run_alt(p.ps, 1, s)
      [] p.op = "many0" -> run_many(p.a, s, <<>>, "Many0")
      [] p.op = "many1" ->
            LET ra == run(p.a, s)
            IN  IF ~ra.ok THEN ra ELSE run_many(p.a, ra.rest, <<ra.val>>, "Many1")
      [] p.op = "map" ->
            LET ra == run(p.a, s)
            IN  IF ~ra.ok THEN ra ELSE Ok(ra.rest, closure(p.f, ra.val))

(***************************************************************************)
(* Inline parsers                                                          *)
(***************************************************************************)
\* [text](url)
parse_link ==
    pair(delimited(tag(<<"[">>), is_not(<<"]">>), tag(<<"]">>)),
         delimited(tag(<<"(">>), is_not(<<")">>), tag(<<")">>)))

\* ![text](url / path)
parse_image ==
    pair(delimited(tag(<<"!", "[">>), is_not(<<"]">>), tag(<<"]">>)),
         delimited(tag(<<"(">>), is_not(<<")">>), tag(<<")">>)))

\* parse_inline with a language that only a space ends
parse_inline_space_only ==
    pair(delimited(tag(<<BT>>), is_not(<<BT>>), tag(<<BT>>)),
         opt(delimited(tag(<<>>), is_not(<<" ">>), not(is_not(<<" ">>)))))

\* BT code BT language  (whitespace is the separator for the next)
parse_inline ==
    pair(delimited(tag(<<BT>>), is_not(<<BT>>), tag(<<BT>>)),
         opt(delimited(tag(<<>>), is_not(WHITESPACE), not(is_not(WHITESPACE)))))

\* **text**
parse_bold == delimited(tag(<<"*", "*">>), is_not(<<"*", "*">>), tag(<<"*", "*">>))

\* parse_italic taking an empty text as well
parse_italic_empty_ok ==
    delimited(tag(<<"*">>), alt(<<is_not(<<"*">>), tag(<<>>)>>), tag(<<"*">>))

\* *text*
parse_italic == delimited(tag(<<"*">>), is_not(<<"*">>), tag(<<"*">>))

\* parse_plain stopping at every "!", not only at "!["
parse_plain_stops_at_bang ==
    map(many1(preceded(not(alt(<<tag(<<"*">>), tag(<<BT>>), tag(<<"[">>),
                                 tag(<<"!">>), tag(<<"\n">>)>>)),
                       take(1))),
        "join")

\* match against all special tags and then join each array
parse_plain ==
    map(many1(preceded(not(alt(<<tag(<<"*">>), tag(<<BT>>), tag(<<"[">>),
                                 tag(<<"!", "[">>), tag(<<"\n">>)>>)),
                       take(1))),
        "join")

\* parse_markdown_inline with the bold alternative mapped to Italic
parse_markdown_inline_bold_as_italic ==
    alt(<<map(parse_plain, "Plain"),
          map(parse_bold, "Italic"),
          map(parse_italic, "Italic"),
          map(parse_inline, "InlineCode"),
          map(parse_image, "Image"),
          map(parse_link, "Link")>>)

parse_markdown_inline ==
    alt(<<map(parse_plain, "Plain"),
          map(parse_bold, "Bold"),
          map(parse_italic, "Italic"),
          map(parse_inline, "InlineCode"),
          map(parse_image, "Image"),
          map(parse_link, "Link")>>)

\* parse_markdown_text with an optional line end
parse_markdown_text_opt_newline ==
    terminated(many0(parse_markdown_inline), opt(tag(<<"\n">>)))

parse_markdown_text == terminated(many0(parse_markdown_inline), tag(<<"\n">>))

(***************************************************************************)
(* Block parsers                                                           *)
(***************************************************************************)
\* parse_header_tag taking every space after the #
parse_header_tag_all_spaces ==
    map(terminated(take_while1({"#"}), take_while1({" "})), "len")

parse_header_tag == map(terminated(take_while1({"#"}), tag(<<" ">>)), "len")

parse_header == tuple(parse_header_tag, parse_markdown_text)

parse_unordered_list_tag == terminated(tag(<<"-">>), tag(<<" ">>))

parse_unordered_list_element == preceded(parse_unordered_list_tag, parse_markdown_text)

\* parse_unordered_list failing as a whole when an item after the first fails
parse_unordered_list_all_or_nothing ==
    terminated(many1(parse_unordered_list_element), not(parse_unordered_list_tag))

parse_unordered_list == many1(parse_unordered_list_element)

parse_ordered_list_tag ==
    terminated(terminated(take_while1(DIGITS), tag(<<".">>)), tag(<<" ">>))

parse_ordered_list_element == preceded(parse_ordered_list_tag, parse_markdown_text)

\* parse_ordered_list going on over unordered items
parse_ordered_list_mixed ==
    many1(alt(<<parse_ordered_list_element, parse_unordered_list_element>>))

parse_ordered_list == many1(parse_ordered_list_element)

\* > text
parse_quote_tag == terminated(tag(<<">">>), tag(<<" ">>))

parse_quote_line == preceded(parse_quote_tag, parse_markdown_text)

parse_quote == many1(parse_quote_line)

\* the fence, the language line, the text, the fence
parse_code_block ==
    tuple(delimited(tag(<<BT, BT, BT>>), is_not(<<"\n">>), tag(<<"\n">>)),
          delimited(tag(<<>>), is_not(<<BT, BT, BT>>), tag(<<BT, BT, BT>>)))

\* the alternatives of parse_markdown's alt, in order
block_alts ==
    <<map(parse_header, "Heading"),
      map(parse_ordered_list, "OrderedList"),
      map(parse_unordered_list, "UnorderedList"),
      map(parse_quote, "Quote"),
      map(parse_code_block, "CodeBlock"),
      map(parse_markdown_text, "Text")>>

(***************************************************************************)
(* Inputs                                                                  *)
(***************************************************************************)
\* longest documents, in lines
MaxLines == 3

\* longest text between inline delimiters
MaxInner == 3

\* longest body of a fenced code block
MaxBody == 2

\* deepest heading
MaxLevel == 3

\* all strings over alphabet cs of length at most n
Strings(cs, n) == UNION {[1..k -> cs] : k \in 0..n}

\* the lines documents are made of
LINES ==
    { <<"#", " ", "a", "\n">>,
      <<"-", " ", "a", "\n">>,
      <<"-", " ", "b", "\n">>,
      <<"1", ".", " ", "a", "\n">>,
      <<"2", ".", " ", "b", "\n">>,
      <<">", " ", "a", "\n">>,
      <<"a", "\n">>,
      <<"\n">>,
      <<"*", "a", "\n">>,
      <<"b", "*", "\n">> }

DocInputs == {join(ls) : ls \in Strings(LINES, MaxLines)}

\* inline text: t between an opening and a closing part
INLINE_CHARS == {"a", "!", "*", BT, "[", "\n"}

WRAPPERS ==
    { <<<<>>, <<>>>>,
      <<<<>>, <<"\n">>>>,
      <<<<"*", "*">>, <<"*", "*">>>>,
      <<<<"*", "*">>, <<>>>>,
      <<<<>>, <<"*", "*">>>>,
      <<<<"*">>, <<"*">>>>,
      <<<<"*", "*">>, <<"*", "*", "\n">>>>,
      <<<<"*">>, <<"*", "\n">>>> }

InlineInputs ==
    {w[1] \o t \o w[2] : w \in WRAPPERS, t \in Strings(INLINE_CHARS, MaxInner)}

\* fenced code blocks: fence, language line, body, fence, what follows
LANGS == {<<>>, <<" ">>, <<"\t", " ">>, <<"a">>, <<" ", "a", "b", " ">>}

BODY_CHARS == {"a", " ", "\n", "*", "[", BT}

TAILS == {<<>>, <<"\n">>}

CodeInputs ==
    {<<BT, BT, BT>> \o l \o <<"\n">> \o b \o <<BT, BT, BT>> \o t :
        l \in LANGS, b \in Strings(BODY_CHARS, MaxBody), t \in TAILS}

\* heading lines: k times #, spaces, content, newline
Hashes(k) == [n \in 1..k |-> "#"]

CONTENTS == {<<>>, <<"a">>, <<"*", "a", "*">>, <<"a", " ", "*", "*", "b", "*", "*">>, <<"*", "a">>}

HeaderInputs ==
    {Hashes(k) \o sp \o c \o <<"\n">> :
        k \in 1..MaxLevel, sp \in {<<>>, <<" ">>, <<" ", " ">>}, c \in CONTENTS}

\* runs of list and quote lines, some with an unterminated emphasis or
\* with block syntax after the prefix
MaxRun == 2

RUN_LINES ==
    { <<"-", " ", "a", "\n">>,
      <<"-", " ", "*", "a", "\n">>,
      <<"1", ".", " ", "a", "\n">>,
      <<"1", ".", " ", "*", "a", "\n">>,
      <<">", " ", "a", "\n">>,
      <<">", " ", "*", "a", "\n">>,
      <<">", " ", "b", "*", "\n">>,
      <<">", " ", "-", " ", "b", "\n">>,
      <<">", " ", "#", " ", "a", "\n">>,
      <<"#", " ", "*", "a", "\n">> }

RunInputs == {join(ls) : ls \in Strings(RUN_LINES, MaxRun)}

\* code spans: the span, then what follows its closing backtick
MaxAfter == 2

SPANS == {<<BT, "a", BT>>, <<BT, "a", " ", "\n", BT>>, <<BT, "a">>, <<BT, BT>>}

AFTER_CHARS == {"a", "*", BT, " ", "\t", "\r", "\n"}

SpanInputs == {c \o t : c \in SPANS, t \in Strings(AFTER_CHARS, MaxAfter)}

\* links and images, with and without label and url
LABELS == {<<>>, <<"a">>}

URLS == {<<>>, <<"b">>}

LinkInputs ==
    {bang \o <<"[">> \o l \o <<"]", "(">> \o u \o <<")">> \o t :
        bang \in {<<>>, <<"!">>}, l \in LABELS, u \in URLS, t \in TAILS}

\* delimiters with nothing between them
EMPTY_CONTENT ==
    { <<"*", "*", "*", "*">>,
      <<"*", "*">>,
      <<BT, BT>>,
      <<BT, BT, BT, "a", "\n", BT, BT, BT>> }

EmptyInputs == {e \o t : e \in EMPTY_CONTENT, t \in TAILS}

Inputs ==
    DocInputs \cup InlineInputs \cup CodeInputs \cup HeaderInputs \cup RunInputs
        \cup SpanInputs \cup LinkInputs \cup EmptyInputs

(***************************************************************************)
(* The state machine: one call of an entry point on the input.             *)
(* parse_markdown's many1(alt(...)) runs one block per step: pc is         *)
(* "start" before the first element, "loop" inside many1's loop, "done"    *)
(* once the call returned ret.                                             *)
(***************************************************************************)
NoResult == [ok |-> FALSE, rest |-> <<>>, val |-> <<>>, kind |-> "None"]

Init ==
    /\ input \in Inputs
    /\ fn = "none"
    /\ pc = "start"
    /\ i = input
    /\ acc = <<>>
    /\ ret = NoResult

\* the index of the first alternative of ps that succeeds on s, 0 if none
RECURSIVE first_ok(_, _, _)
first_ok(ps, k, s) ==
    IF k > Len(ps) THEN 0
    ELSE IF run(ps[k], s).ok THEN k
    ELSE first_ok(ps, k + 1, s)

\* alternative k of parse_markdown's alt is the first to succeed at i
Matches(k) ==
    /\ pc \in {"start", "loop"}
    /\ fn \in {"none", "parse_markdown"}
    /\ first_ok(block_alts, 1, i) = k

\* one element of many1: r is the result of the alternative that succeeded.
\* Inside the loop an element that consumed nothing is an error.
Push(r) ==
    /\ fn' = "parse_markdown"
    /\ input' = input
    /\ IF pc = "loop" /\ r.rest = i
       THEN /\ ret' = Err(i, "Many1")
            /\ pc' = "done"
            /\ UNCHANGED <<i, acc>>
       ELSE /\ i' = r.rest
            /\ acc' = Append(acc, r.val)
            /\ pc' = "loop"
            /\ ret' = ret

Heading ==
    /\ Matches(1)
    /\ Push(run(block_alts[1], i))

OrderedList ==
    /\ Matches(2)
    /\ Push(run(block_alts[2], i))

UnorderedList ==
    /\ Matches(3)
    /\ Push(run(block_alts[3], i))

Quote ==
    /\ Matches(4)
    /\ Push(run(block_alts[4], i))

CodeBlock ==
    /\ Matches(5)
    /\ Push(run(block_alts[5], i))

Text ==
    /\ Matches(6)
    /\ Push(run(block_alts[6], i))

\* NoMatch as all_consuming(many1(...)) would have it: input left over
\* is an error
NoMatch_all_consuming ==
    /\ Matches(0)
    /\ fn' = "parse_markdown"
    /\ pc' = "done"
    /\ ret' = IF pc = "start" \/ i # <<>> THEN run(alt(block_alts), i) ELSE Ok(i, acc)
    /\ UNCHANGED <<input, i, acc>>

\* NoMatch as many0 would have it: no element is a success too
NoMatch_many0 ==
    /\ Matches(0)
    /\ fn' = "parse_markdown"
    /\ pc' = "done"
    /\ ret' = Ok(i, acc)
    /\ UNCHANGED <<input, i, acc>>

\* no alternative succeeds at i: many1 fails on its first element, and
\* otherwise returns what it has with the rest of the input
NoMatch ==
    /\ Matches(0)
    /\ fn' = "parse_markdown"
    /\ pc' = "done"
    /\ ret' = IF pc = "start" THEN run(alt(block_alts), i) ELSE Ok(i, acc)
    /\ UNCHANGED <<input, i, acc>>

\* a call of one of the line-level entry points: r is what it returns
Return(name, r) ==
    /\ fn' = name
    /\ pc' = "done"
    /\ ret' = r
    /\ UNCHANGED <<input, i, acc>>

CallParseBold ==
    /\ pc = "start" /\ fn = "none"
    /\ Return("parse_bold", run(parse_bold, input))

CallParseMarkdownText ==
    /\ pc = "start" /\ fn = "none"
    /\ Return("parse_markdown_text", run(parse_markdown_text, input))

CallParseInline ==
    /\ pc = "start" /\ fn = "none"
    /\ Return("parse_inline", run(parse_inline, input))

Next ==
    \/ Heading
    \/ OrderedList
    \/ UnorderedList
    \/ Quote
    \/ CodeBlock
    \/ Text
    \/ NoMatch
    \/ CallParseBold
    \/ CallParseMarkdownText
    \/ CallParseInline

Spec == Init /\ [][Next]_vars

(***************************************************************************)
(* Vocabulary of the properties                                            *)
(***************************************************************************)
\* parse_markdown has returned
Returned == fn = "parse_markdown" /\ pc = "done"

\* some block alternative succeeds at s
BlockMatches(s) == \E k \in 1..Len(block_alts) : run(block_alts[k], s).ok

IsSuffix(t, s) == Len(t) <= Len(s) /\ Drop(s, Len(s) - Len(t)) = t

EndsWith(s, t) == IsSuffix(t, s)

\* where t first occurs in s (the index of its first character), 0 if nowhere
IndexOf(s, t) ==
    LET at == {k \in 1..(Len(s) + 1) : StartsWith(Drop(s, k - 1), t)}
    IN  IF at = {} THEN 0 ELSE CHOOSE k \in at : \A m \in at : k <= m

Contains(s, t) == IndexOf(s, t) # 0

\* the characters that start an inline construct or end the line
MARKERS == {"*", BT, "[", "\n"}

MarkerFree(t) == Range(t) \cap MARKERS = {}

\* parse_markdown has taken (or failed to take) its first element
Started == fn = "parse_markdown"

\* parse_markdown_text has returned
TextReturned == fn = "parse_markdown_text" /\ pc = "done"

\* the text fields of an inline token, as a sequence
TokenTexts(tok) ==
    CASE tok[1] \in {"Plain", "Bold", "Italic"} -> <<tok[2]>>
      [] tok[1] \in {"Link", "Image"} -> <<tok[2], tok[3]>>
      [] tok[1] = "InlineCode" -> <<tok[2]>> \o tok[3]

\* the MarkdownTexts of a block node, as a sequence
BlockTexts(b) ==
    CASE b[1] = "Heading" -> <<b[3]>>
      [] b[1] \in {"OrderedList", "UnorderedList", "Quote"} -> b[2]
      [] b[1] = "Text" -> <<b[2]>>
      [] b[1] = "CodeBlock" -> <<>>

\* no token of the MarkdownText mt other than Plain holds a newline
WithinLine(mt) ==
    \A k \in 1..Len(mt) :
        mt[k][1] # "Plain" =>
            \A n \in 1..Len(TokenTexts(mt[k])) : "\n" \notin Range(TokenTexts(mt[k])[n])

C2_TokensWithinLine ==
    /\ (Returned /\ ret.ok) =>
          \A b \in 1..Len(ret.val) :
              \A l \in 1..Len(BlockTexts(ret.val[b])) :
                  WithinLine(BlockTexts(ret.val[b])[l])
    /\ (TextReturned /\ ret.ok) => WithinLine(ret.val)

(***************************************************************************)
(* C3, C4  fenced code blocks                                              *)
(***************************************************************************)
FENCE == <<BT, BT, BT>>

\* the parts of an input that opens with a fence: the rest of the fence
\* line, and the text from the next line to the next fence
AfterFence(s) == Drop(s, Len(FENCE))

FenceLine(s) == Take(AfterFence(s), IndexOf(AfterFence(s), <<"\n">>) - 1)

AfterFenceLine(s) == Drop(AfterFence(s), IndexOf(AfterFence(s), <<"\n">>))

FenceBody(s) == Take(AfterFenceLine(s), IndexOf(AfterFenceLine(s), FENCE) - 1)

\* s opens with a fence line and holds a closing fence after a non-empty body
IsFenced(s) ==
    /\ StartsWith(s, FENCE)
    /\ Contains(AfterFence(s), <<"\n">>)
    /\ Contains(AfterFenceLine(s), FENCE)
    /\ FenceBody(s) # <<>>

\* C3: the language of a fenced code block is the trimmed rest of the fence
\* line, None when that is empty or whitespace only (bodies without any
\* backtick).
C3_Language ==
    (Started /\ IsFenced(input) /\ BT \notin Range(FenceBody(input))) =>
        /\ acc # <<>>
        /\ acc[1][1] = "CodeBlock"
        /\ acc[1][3] = IF trim(FenceLine(input)) = <<>> THEN None
                       ELSE Some(trim(FenceLine(input)))

\* C4: the code of a fenced code block is the text between the fence line
\* and the next fence, verbatim (fence lines that are not empty).
C4_CodeVerbatim ==
    (Started /\ IsFenced(input) /\ FenceLine(input) # <<>>) =>
        /\ acc # <<>>
        /\ acc[1][1] = "CodeBlock"
        /\ acc[1][2] = FenceBody(input)

(***************************************************************************)
(* C5  parse_bold                                                          *)
(***************************************************************************)
BoldReturned == fn = "parse_bold" /\ pc = "done"

\* the text between the first two and the last two characters
Inner(s, n) == SubSeq(s, n + 1, Len(s) - n)

\* C5: parse_bold returns t on "**" t "**" for every non-empty t without
\* "**" (t neither starting nor ending with a star, so that the delimiters
\* are the outer ones), and fails when the opening or the closing "**" is
\* missing.
C5_BoldInner ==
    BoldReturned =>
        /\ ( /\ Len(input) >= 5
             /\ StartsWith(input, <<"*", "*">>) /\ EndsWith(input, <<"*", "*">>)
             /\ ~Contains(Inner(input, 2), <<"*", "*">>)
             /\ input[3] # "*" /\ input[Len(input) - 2] # "*" )
           => ret = Ok(<<>>, Inner(input, 2))
        /\ ~StartsWith(input, <<"*", "*">>) => ~ret.ok
        /\ ~Contains(Drop(input, 2), <<"*", "*">>) => ~ret.ok

(***************************************************************************)
(* C6  bold and italic in a line                                           *)
(***************************************************************************)
\* C6: for non-empty marker-free t, parse_markdown_text gives [Bold(t)] on
\* "**" t "**\n" and [Italic(t)] on "*" t "*\n".
C6_BoldBeforeItalic ==
    TextReturned =>
        /\ ( /\ Len(input) >= 6
             /\ StartsWith(input, <<"*", "*">>) /\ EndsWith(input, <<"*", "*", "\n">>)
             /\ MarkerFree(SubSeq(input, 3, Len(input) - 3)) )
           => ret = Ok(<<>>, <<<<"Bold", SubSeq(input, 3, Len(input) - 3)>>>>)
        /\ ( /\ Len(input) >= 4
             /\ StartsWith(input, <<"*">>) /\ EndsWith(input, <<"*", "\n">>)
             /\ MarkerFree(SubSeq(input, 2, Len(input) - 2)) )
           => ret = Ok(<<>>, <<<<"Italic", SubSeq(input, 2, Len(input) - 2)>>>>)

\* a bold run whose text holds a "!": one Bold token, no Italic
C6_Witness ==
    /\ TextReturned
    /\ input = <<"*", "*", "a", "!", "*", "*", "\n">>
    /\ ret = Ok(<<>>, <<<<"Bold", <<"a", "!">>>>>>)

(***************************************************************************)
(* C7  headings                                                            *)
(***************************************************************************)
\* the number of # the input starts with
HashCount(s) == RunLen(s, {"#"}, TRUE)

\* C7: k >= 1 times # and one space before well-formed inline content
\* parse to Heading(k, content), whatever spaces follow the first staying in
\* the content; k times # with no space after them are not a heading.
C7_HeadingLevel ==
    (Started /\ HashCount(input) >= 1) =>
        LET k == HashCount(input)
            content == run(parse_markdown_text, Drop(input, k + 1))
        IN  IF Len(input) > k /\ input[k + 1] = " "
            THEN content.ok =>
                    /\ acc # <<>>
                    /\ acc[1] = <<"Heading", k, content.val>>
                    /\ (Len(acc) = 1 /\ pc = "loop") => i = content.rest
            ELSE acc = <<>> \/ acc[1][1] # "Heading"

\* three #, two spaces: level 3, and the second space starts the content
C7_Witness ==
    /\ Started
    /\ input = <<"#", "#", "#", " ", " ", "a", "\n">>
    /\ acc = <<<<"Heading", 3, <<<<"Plain", <<" ", "a">>>>>>>>>>

(***************************************************************************)
(* C8  lists                                                               *)
(***************************************************************************)
\* the first line of s with its newline (all of s when it has none)
FirstLine(s) ==
    IF Contains(s, <<"\n">>) THEN Take(s, IndexOf(s, <<"\n">>)) ELSE s

\* the length of the list prefix the line carries, 0 when it carries none
PrefixLen(kind, line) ==
    IF kind = "UnorderedList"
    THEN IF StartsWith(line, <<"-", " ">>) THEN 2 ELSE 0
    ELSE LET d == RunLen(line, DIGITS, TRUE)
         IN  IF d >= 1 /\ StartsWith(Drop(line, d), <<".", " ">>) THEN d + 2 ELSE 0

\* the leading run of lines of s that carry the prefix of kind: ok when
\* each of them is well formed (its content decodes to the end of that
\* line), with their contents in order and the input after the run
RECURSIVE ListRun(_, _, _)
ListRun(kind, s, items) ==
    LET line == FirstLine(s)
        n == PrefixLen(kind, line)
        r == run(parse_markdown_text, Drop(line, n))
    IN  IF s = <<>> \/ n = 0 THEN [ok |-> TRUE, items |-> items, rest |-> s]
        ELSE IF r.ok /\ r.rest = <<>>
        THEN ListRun(kind, Drop(s, Len(line)), Append(items, r.val))
        ELSE [ok |-> FALSE, items |-> items, rest |-> s]

ListAsClaimed(kind) ==
    LET e == ListRun(kind, input, <<>>)
    IN  (e.ok /\ e.items # <<>>) =>
            /\ acc # <<>>
            /\ acc[1] = <<kind, e.items>>
            /\ (Len(acc) = 1 /\ pc = "loop") => i = e.rest

\* C8: a maximal run of n >= 1 well-formed lines with the same list prefix
\* gives one list node of that kind with the n items in order, and the
\* first line without the prefix starts the next block.
C8_ListRun ==
    Started => ListAsClaimed("UnorderedList") /\ ListAsClaimed("OrderedList")

\* two items, then a plain line: the list, then a Text
C8_Witness ==
    /\ Returned
    /\ input = <<"-", " ", "a", "\n", "-", " ", "b", "\n", "a", "\n">>
    /\ ret = Ok(<<>>, << <<"UnorderedList", << <<<<"Plain", <<"a">>>>>>,
                                                <<<<"Plain", <<"b">>>>>> >> >>,
                         <<"Text", <<<<"Plain", <<"a">>>>>>>> >>)

(***************************************************************************)
(* C9  plain lines                                                         *)
(***************************************************************************)
\* the input without its last character
Line(s) == Take(s, Len(s) - 1)

IsPlainLine(s) == s # <<>> /\ s[Len(s)] = "\n" /\ MarkerFree(Line(s))

\* C9, as claimed: every marker-free line decodes to a single Plain token
\* that equals the line.
C9_SinglePlain ==
    (TextReturned /\ IsPlainLine(input)) => ret = Ok(<<>>, <<<<"Plain", Line(input)>>>>)

\* C9, amended: every non-empty marker-free line decodes to a single Plain
\* token that equals the line, and the empty line to no token at all.
C9_PlainLine ==
    (TextReturned /\ IsPlainLine(input)) =>
        ret = Ok(<<>>, IF Line(input) = <<>> THEN <<>> ELSE <<<<"Plain", Line(input)>>>>)

\* a line of plain characters, among them "!"
C9_Witness ==
    /\ TextReturned
    /\ input = <<"!", "a", "!", "\n">>
    /\ ret = Ok(<<>>, <<<<"Plain", <<"!", "a", "!">>>>>>)

(***************************************************************************)
(* C10  the empty input                                                    *)
(***************************************************************************)
\* C10: parse_markdown fails on the empty input, and every successful
\* result holds at least one block node.
C10_AtLeastOneBlock ==
    Returned =>
        /\ input = <<>> => ~ret.ok
        /\ ret.ok => Len(ret.val) >= 1

\* parse_markdown has failed on the empty input
C10_Witness == Returned /\ input = <<>> /\ ~ret.ok /\ ret.kind = "Tag"

(***************************************************************************)
(* C11  an inline failure inside a block                                   *)
(***************************************************************************)
\* the prefix of the lines of a list or quote node
RunPrefixLen(kind, line) ==
    IF kind = "Quote" THEN (IF StartsWith(line, <<">", " ">>) THEN 2 ELSE 0)
    ELSE PrefixLen(kind, line)

\* the leading well-formed lines of s that carry the prefix of kind: their
\* contents in order, and the input from the first line that is not one
RECURSIVE GoodRun(_, _, _)
GoodRun(kind, s, items) ==
    LET line == FirstLine(s)
        n == RunPrefixLen(kind, line)
        r == run(parse_markdown_text, Drop(line, n))
    IN  IF s # <<>> /\ n > 0 /\ r.ok /\ r.rest = <<>>
        THEN GoodRun(kind, Drop(s, Len(line)), Append(items, r.val))
        ELSE [items |-> items, rest |-> s]

\* s starts with a line that carries the prefix of kind and whose content
\* fails to decode
BrokenLine(kind, s) ==
    /\ RunPrefixLen(kind, FirstLine(s)) > 0
    /\ ~run(parse_markdown_text, Drop(s, RunPrefixLen(kind, FirstLine(s)))).ok

\* the input is one or more well-formed lines of kind, then a broken one
BrokenAfterGood(kind) ==
    /\ GoodRun(kind, input, <<>>).items # <<>>
    /\ BrokenLine(kind, GoodRun(kind, input, <<>>).rest)

RUN_KINDS == {"OrderedList", "UnorderedList", "Quote"}

RECURSIVE SplitLines(_)
SplitLines(s) ==
    IF s = <<>> THEN <<>>
    ELSE <<FirstLine(s)>> \o SplitLines(Drop(s, Len(FirstLine(s))))

\* what the first block consumed, while it is the only block taken
Consumed == Take(input, Len(input) - Len(i))

FirstIsQuote == Started /\ Len(acc) = 1 /\ acc[1][1] = "Quote"

\* C12: a Quote node holds one MarkdownText per consumed source line, in
\* order; every consumed line starts with "> ", and its entry is the inline
\* decode of what follows the prefix, so that block syntax after the prefix
\* stays inline text of that line.
C12_QuoteLines ==
    FirstIsQuote =>
        LET ls == SplitLines(Consumed)
            entries == acc[1][2]
        IN  /\ Len(entries) = Len(ls)
            /\ \A k \in 1..Len(ls) :
                  /\ StartsWith(ls[k], <<">", " ">>)
                  /\ k <= Len(entries) =>
                        entries[k] = run(parse_markdown_text, Drop(ls[k], 2)).val
                  /\ (k <= Len(entries) /\ Line(Drop(ls[k], 2)) # <<>>
                        /\ MarkerFree(Line(Drop(ls[k], 2)))) =>
                        entries[k] = <<<<"Plain", Line(Drop(ls[k], 2))>>>>

(***************************************************************************)
(* C13  the language of a code span                                        *)
(***************************************************************************)
InlineReturned == fn = "parse_inline" /\ pc = "done"

\* the input is BT code BT after, with a non-empty code without backtick
IsSpan(s) == Len(s) >= 3 /\ s[1] = BT /\ s[2] # BT /\ Contains(Drop(s, 1), <<BT>>)

SpanCode(s) == Take(Drop(s, 1), IndexOf(Drop(s, 1), <<BT>>) - 1)

AfterSpan(s) == Drop(s, Len(SpanCode(s)) + 2)

\* C13: on a code span, parse_inline returns the code and, as language, the
\* maximal run of non-whitespace that directly follows the closing backtick;
\* the whitespace or end of input that ends the run is left in the
\* remainder; the language is None when that run is empty.
C13_InlineLanguage ==
    (InlineReturned /\ IsSpan(input)) =>
        LET after == AfterSpan(input)
            n == RunLen(after, Range(WHITESPACE), FALSE)
        IN  /\ ret.ok
            /\ ret.val[1] = SpanCode(input)
            /\ ret.val[2] = (IF n = 0 THEN None ELSE Some(Take(after, n)))
            /\ ret.rest = Drop(after, n)
            /\ ret.rest = <<>> \/ ret.rest[1] \in Range(WHITESPACE)

\* a language ended by a newline, which stays in the remainder
C13_Witness ==
    /\ InlineReturned
    /\ input = <<BT, "a", BT, "*", "\n">>
    /\ ret = Ok(<<"\n">>, <<<<"a">>, Some(<<"*">>)>>)

(***************************************************************************)
(* C14  no empty text                                                      *)
(***************************************************************************)
\* every text field of every token of the MarkdownText mt is non-empty
TextsNonEmpty(mt) ==
    \A k \in 1..Len(mt) :
        \A n \in 1..Len(TokenTexts(mt[k])) : TokenTexts(mt[k])[n] # <<>>

\* every text the block node b holds is non-empty
BlockNonEmpty(b) ==
    /\ \A k \in 1..Len(BlockTexts(b)) : TextsNonEmpty(BlockTexts(b)[k])
    /\ b[1] = "CodeBlock" => (b[2] # <<>> /\ (b[3] # None => b[3][1] # <<>>))

\* the input is a pair of delimiters with an empty label, url or text
\* between them, alone on its line
HasEmptyContent ==
    \/ input \in EmptyInputs
    \/ /\ input \in LinkInputs
       /\ Contains(input, <<"[", "]">>) \/ Contains(input, <<"(", ")">>)

\* C14: every text in a successful result is non-empty (Bold, Italic,
\* Plain, InlineCode code, Link and Image label and url, CodeBlock code,
\* every present language), and empty delimited content is rejected.
C14_NoEmptyText ==
    /\ Started => \A k \in 1..Len(acc) : BlockNonEmpty(acc[k])
    /\ (Returned /\ ret.ok) => \A k \in 1..Len(ret.val) : BlockNonEmpty(ret.val[k])
    /\ (TextReturned /\ ret.ok) => TextsNonEmpty(ret.val)
    /\ (BoldReturned /\ ret.ok) => ret.val # <<>>
    /\ (InlineReturned /\ ret.ok) =>
          (ret.val[1] # <<>> /\ (ret.val[2] # None => ret.val[2][1] # <<>>))
    /\ (pc = "done" /\ HasEmptyContent) => ~ret.ok

\* a link with label and url is a token; its texts are kept
C14_Witness ==
    /\ Returned
    /\ input = <<"[", "a", "]", "(", "b", ")", "\n">>
    /\ ret = Ok(<<>>, <<<<"Text", <<<<"Link", <<"a">>, <<"b">>>>>>>>>>)

(***************************************************************************)
(* C15  termination                                                        *)
(***************************************************************************)
\* the non-empty suffixes of s
Suffixes(s) == {Drop(s, n) : n \in 0..(Len(s) - 1)}

\* parser p, where it succeeds on s, takes at least one character of s and
\* leaves a suffix of s
Consumes(p, s) ==
    run(p, s).ok => (Len(run(p, s).rest) < Len(s) /\ IsSuffix(run(p, s).rest, s))

\* no block alternative succeeds at s
NoneMatches(s) == \A k \in 1..Len(block_alts) : ~run(block_alts[k], s).ok

\* what holds in every state of a run of parse_markdown: progress of every
\* alternative at the current position, and the measure Len(acc) + Len(i)
\* that the input bounds
C15_Progress ==
    /\ Started =>
          /\ IsSuffix(i, input)
          /\ Len(acc) + Len(i) <= Len(input)
          /\ \A k \in 1..Len(block_alts) : Consumes(block_alts[k], i)
          /\ pc = "done" => (IsSuffix(ret.rest, input) /\ ret.kind # "Many1")
    /\ TextReturned =>
          /\ \A t \in Suffixes(input) : Consumes(parse_markdown_inline, t)
          /\ ret.kind # "Many0"
          /\ IsSuffix(ret.rest, input)

\* one step of the repetition: it stops when no alternative matches (always
\* so on the empty input), and otherwise goes on with less input
C15_Step ==
    (fn' = "parse_markdown") =>
        /\ pc # "done"
        /\ (NoneMatches(i) \/ i = <<>>) => (pc' = "done" /\ i' = i)
        /\ pc' = "loop" => (Len(i') < Len(i) /\ Len(acc') = Len(acc) + 1)
        /\ pc' = "done" => NoneMatches(i)

\* while parse_markdown has not returned, one of the steps of the repetition
\* can be taken
C15_NotStuck == pc # "done" => \E k \in 0..Len(block_alts) : Matches(k)

\* C15: parse_markdown terminates: every block alternative and every inline
\* alternative that succeeds consumes at least one character, the remainder
\* is a suffix of the input, the repetition stops as soon as no alternative
\* matches or the input is empty, and until then a step can be taken with
\* strictly less input left, so that there are at most Len(input) elements.
C15_Terminates ==
    /\ [](C15_Progress /\ C15_NotStuck)
    /\ [][C15_Step]_vars

\* three blocks were taken one after the other, down to the empty input
C15_Witness ==
    /\ Returned
    /\ input = <<"#", " ", "a", "\n", "-", " ", "a", "\n", ">", " ", "a", "\n">>
    /\ Len(acc) = 3
    /\ ret = Ok(<<>>, acc)

====
